---- MODULE Spec2Model ----
(***************************************************************************)
(* Model of transformer_tutorial_from_pytorch.ipynb: batchify / get_batch, *)
(* the causal mask and its cache in TransformerModel.forward, train(),     *)
(* evaluate(), and the epoch loop with StepLR decay and best_model.        *)
(*                                                                         *)
(* Tensors are records [err, rows, cols, data]: a 2-D contiguous tensor    *)
(* with its row-major storage; err # "ok" stands for a raised exception.   *)
(* Indices are 0-based as in the source; storage sequences are 1-based.    *)
(***************************************************************************)
EXTENDS Integers, Sequences, FiniteSets, TLC

\* ---------------------------------------------------------------- bounds
MaxLen == 8
MaxBsz == 3
MaxBptt == 3
MaxSz == 4
MaxValLen == 4
MaxCalls == 3

\* ------------------------------------------------------- float sentinels
\* float("inf"); NaN is the one value that compares false with everything.
Inf == 1000000
NaN == Inf + 1
NegInf == 0 - Inf

\* ------------------------------------------------------------- tensors
Tensor(r, c, d) == [err |-> "ok", rows |-> r, cols |-> c, data |-> d]

Raise(e) == [err |-> e, rows |-> 0, cols |-> 0, data |-> << >>]

NoTensor == Raise("None")

IsOk(x) == x.err = "ok"

\* x[t, b]
At(x, t, b) == x.data[t * x.cols + b + 1]

Min(a, b) == IF a <= b THEN a ELSE b

Max(a, b) == IF a >= b THEN a ELSE b

\* Python's a // b for b # 0 (floor division, also for a negative divisor).
PyFloorDiv(a, b) == IF b > 0 THEN a \div b ELSE (0 - a) \div (0 - b)

\* Python's slice bound: a negative index counts from the end, then clamp.
PyClamp(k, n) == IF k < 0 THEN Max(k + n, 0) ELSE Min(k, n)

\* x[a:b] along dimension 0.
SliceRows(x, a, b) ==
    LET lo == PyClamp(a, x.rows)
        hi == Max(PyClamp(b, x.rows), lo)
    IN  Tensor(hi - lo, x.cols, SubSeq(x.data, lo * x.cols + 1, hi * x.cols))

\* x.view(-1): the row-major storage, as one column-less run.
ViewFlat(x) == x.data

\* data.narrow(0, 0, length) of a flat (L x 1) tensor.
Narrow(d, length) ==
    IF length < 0 \/ length > Len(d) THEN Raise("RuntimeError")
    ELSE Tensor(length, 1, SubSeq(d, 1, length))

\* x.view(bsz, -1): bsz rows, the other dimension inferred.
View(x, bsz) ==
    LET numel == x.rows * x.cols
    IN  IF bsz <= 0 THEN Raise("RuntimeError")
        ELSE IF numel % bsz # 0 THEN Raise("RuntimeError")
        ELSE Tensor(bsz, numel \div bsz, x.data)

\* x.t().contiguous()
Transpose(x) ==
    Tensor(x.cols, x.rows,
           [k \in 1..(x.rows * x.cols) |->
               At(x, (k - 1) % x.rows, (k - 1) \div x.rows)])

\* ------------------------------------------------------------- batchify
batchify_keeps_rows(data, bsz) ==
    IF bsz = 0 THEN Raise("ZeroDivisionError")
    ELSE LET nbatch == PyFloorDiv(Len(data), bsz)
             cut == Narrow(data, nbatch * bsz)
         IN  IF ~IsOk(cut) THEN cut
             ELSE IF bsz < 0 THEN Raise("RuntimeError")
             ELSE Tensor(nbatch, bsz, cut.data)

batchify(data, bsz) ==
    IF bsz = 0 THEN Raise("ZeroDivisionError")
    ELSE LET nbatch == PyFloorDiv(Len(data), bsz)
             cut == Narrow(data, nbatch * bsz)
             v == IF IsOk(cut) THEN View(cut, bsz) ELSE cut
         IN  IF IsOk(v) THEN Transpose(v) ELSE v

\* --------------------------------------------------------------- floats
\* Losses are floats: a finite value is an integer count of loss units, and
\* a quotient is kept exact as <<numerator, denominator>>.
FAdd(a, b) ==
    IF a = NaN \/ b = NaN THEN NaN
    ELSE IF a = Inf \/ b = Inf THEN Inf
    ELSE a + b

\* n * a for an integer n >= 0 (len(data) * loss)
FScale(n, a) ==
    IF a = NaN THEN NaN
    ELSE IF a = Inf THEN (IF n = 0 THEN NaN ELSE Inf)
    ELSE n * a

\* a < b on quotients; every comparison with NaN is false.
FLt(a, b) ==
    IF a[1] = NaN \/ b[1] = NaN THEN FALSE
    ELSE IF a[1] = Inf THEN FALSE
    ELSE IF b[1] = Inf THEN TRUE
    ELSE a[1] * b[2] < b[1] * a[2]

\* a == b on quotients.
FEq(a, b) ==
    IF a[1] = NaN \/ b[1] = NaN THEN FALSE
    ELSE IF a[1] = Inf \/ b[1] = Inf THEN a[1] = b[1]
    ELSE a[1] * b[2] = b[1] * a[2]

\* ------------------------------------------------------------ variables
VARIABLES
    train_txt, val_txt, test_txt,      \* the three flat token sequences
    batch_size, eval_batch_size,       \* batch columns of the splits
    bptt, log_interval, epochs,        \* window size, report interval, epochs
    train_data, val_data, test_data,   \* the batchified matrices
    pc,                                \* where the notebook is
    err,                               \* the exception that ended the run
    epoch, batch, i,                   \* loop variables
    total_loss,                        \* running sum of train() / evaluate()
    data, targets,                     \* the window get_batch last returned
    src_mask,                          \* model.src_mask
    enc_mask,                          \* mask last given to transformer_encoder
    mask_out,                          \* what _generate_square_subsequent_mask last returned
    mask_builds,                       \* calls of _generate_square_subsequent_mask
    fwd_calls,                         \* calls of forward
    params,                            \* version of the model's parameters
    lr,                                \* optimizer's learning rate, a quotient
    best_val_loss, best_model,
    val_loss, test_loss,
    n_reports, last_report,            \* lines printed by train()
    n_summaries,                       \* "end of epoch" lines printed
    val_hist,                          \* val_loss of every finished epoch
    params_at_best,                    \* params when best_model was assigned
    eval_log,                          \* <<len(data), loss>> of this evaluate pass
    eval_params,                       \* params of the model being evaluated
    step_lr,                           \* lr the last optimizer.step used
    pass_log,                          \* the windows get_batch gave this pass
    sum_windows                        \* losses added to total_loss in train()

cfg_vars == <<train_txt, val_txt, test_txt, batch_size, eval_batch_size,
              bptt, log_interval, epochs>>

data_vars == <<train_data, val_data, test_data>>

loop_vars == <<epoch, batch, i, total_loss>>

win_vars == <<data, targets>>

mask_vars == <<src_mask, enc_mask, mask_out, mask_builds, fwd_calls>>

run_vars == <<lr, best_val_loss, best_model, val_loss, test_loss, val_hist,
              params_at_best>>

out_vars == <<n_reports, last_report, n_summaries>>

ghost_vars == <<pass_log, sum_windows>>

vars == <<cfg_vars, data_vars, pc, err, loop_vars, win_vars, mask_vars,
          params, run_vars, out_vars, eval_log, eval_params, step_lr,
          ghost_vars>>

\* ------------------------------------------------------------ get_batch
get_batch_same_rows(source, start) ==
    LET seq_len == Min(bptt, source.rows - 1 - start)
    IN  [data |-> SliceRows(source, start, start + seq_len),
         target |-> ViewFlat(SliceRows(source, start, start + seq_len))]

\* A window that may take the last row as data.
get_batch_to_last_row(source, start) ==
    LET seq_len == Min(bptt, source.rows - start)
    IN  [data |-> SliceRows(source, start, start + seq_len),
         target |-> ViewFlat(SliceRows(source, start + 1, start + 1 + seq_len))]

get_batch(source, start) ==
    LET seq_len == Min(bptt, source.rows - 1 - start)
    IN  [data |-> SliceRows(source, start, start + seq_len),
         target |-> ViewFlat(SliceRows(source, start + 1, start + 1 + seq_len))]

\* ------------------------------------------------------------ the mask
\* Square matrices are functions over 0..sz-1 in both dimensions.
Ones(sz) == [r \in 0..(sz - 1) |-> [c \in 0..(sz - 1) |-> 1]]

\* torch.triu: the upper triangle (diagonal included), the rest zero.
Triu(m, sz) ==
    [r \in 0..(sz - 1) |-> [c \in 0..(sz - 1) |-> IF c >= r THEN m[r][c] ELSE 0]]

MTranspose(m, sz) == [r \in 0..(sz - 1) |-> [c \in 0..(sz - 1) |-> m[c][r]]]

\* x.masked_fill(cond, value)
MaskedFill(x, cond, value, sz) ==
    [r \in 0..(sz - 1) |-> [c \in 0..(sz - 1) |->
        IF cond[r][c] THEN value ELSE x[r][c]]]

MEq(m, v, sz) == [r \in 0..(sz - 1) |-> [c \in 0..(sz - 1) |-> m[r][c] = v]]

MFloat(m, sz) ==
    [r \in 0..(sz - 1) |-> [c \in 0..(sz - 1) |-> IF m[r][c] THEN 1 ELSE 0]]

\* mask == 0 / mask == 1 on the bool matrix
MIsFalse(m, sz) == MEq(m, FALSE, sz)

MIsTrue(m, sz) == MEq(m, TRUE, sz)

generate_mask_no_transpose(sz) ==
    LET mask == MEq(Triu(Ones(sz), sz), 1, sz)
    IN  MaskedFill(MaskedFill(MFloat(mask, sz), MIsFalse(mask, sz), NegInf, sz),
                   MIsTrue(mask, sz), 0, sz)

generate_square_subsequent_mask(sz) ==
    LET mask == MTranspose(MEq(Triu(Ones(sz), sz), 1, sz), sz)
    IN  MaskedFill(MaskedFill(MFloat(mask, sz), MIsFalse(mask, sz), NegInf, sz),
                   MIsTrue(mask, sz), 0, sz)

\* model.src_mask: None, or a mask with its size(0).
NoMask == [none |-> TRUE, sz |-> 0, m |-> Ones(0)]

MaskOf(sz) == [none |-> FALSE, sz |-> sz, m |-> generate_square_subsequent_mask(sz)]

\* forward's test: must the cached mask be rebuilt for a src of n rows?
StaleOnlyWhenNone(cached, n) == cached.none

Stale(cached, n) == cached.none \/ cached.sz # n

\* model(data): refreshes the cache, hands src_mask to the encoder.
Forward(src) ==
    /\ IF Stale(src_mask, src.rows)
       THEN /\ mask_out' = MaskOf(src.rows)
            /\ mask_builds' = mask_builds + 1
            /\ src_mask' = mask_out'
       ELSE UNCHANGED <<mask_out, mask_builds, src_mask>>
    /\ enc_mask' = src_mask'
    /\ fwd_calls' = fwd_calls + 1

\* ------------------------------------------------------ program constants
LrInit == 5
GammaNum == 19
GammaDen == 20
Epochs == 3

\* ------------------------------------------------------- loops and loss
\* A loop that also runs its body at the stop value.
InRangeInclusive(v, stop, step) == IF step > 0 THEN v <= stop ELSE v >= stop

\* Is v still inside range(0, stop, step)?  (step # 0)
InRange(v, stop, step) == IF step > 0 THEN v < stop ELSE v > stop

\* Python's a % b for b # 0 (the result has the sign of b).
PyMod(a, b) == IF b > 0 THEN a % b ELSE 0 - ((0 - a) % (0 - b))

\* What criterion(output, targets).item() can be: the encoder and the
\* parameters are opaque, so any of these; a NaN (diverged weights) included.
LossVals == {0, 1, NaN}

\* total_loss / (len(data_source) - 1)
evaluate_return(total, source) ==
    IF source.rows - 1 = 0 THEN [err |-> "ZeroDivisionError", q |-> <<0, 1>>]
    ELSE [err |-> "ok", q |-> <<total, source.rows - 1>>]

\* total_loss += len(data) * loss
evaluate_add_unweighted(total, n, loss) == FAdd(total, loss)

evaluate_add(total, n, loss) == FAdd(total, FScale(n, loss))

\* StepLR(optimizer, 1.0, gamma=0.95).step(): every step is a decay.
scheduler_step_idle(l) == l

scheduler_step(l) == <<l[1] * GammaNum, l[2] * GammaDen>>

\* best_model = model binds a second name to the one model object; the
\* parameters of that object are the variable params.
NoModel == [none |-> TRUE, ref |-> "None"]

ModelRef == [none |-> FALSE, ref |-> "model"]

Deref(m) == params

\* windows: how many losses the printed cur_loss sums (not printed).
NoReport == [epoch |-> 0, batch |-> 0, nbatches |-> 0, lr |-> <<0, 1>>,
             cur_loss |-> <<0, 1>>, windows |-> 0]

\* What one get_batch call gave: its start, the rows of data, the length of
\* the flat target and the columns.
Window(start, w) ==
    [start |-> start, rows |-> w.data.rows, target_len |-> Len(w.target),
     cols |-> w.data.cols]

Ident(L) == [k \in 1..L |-> k - 1]

\* if batch % log_interval == 0 and batch > 0  (log_interval # 0)
should_report_also_first(b, interval) == PyMod(b, interval) = 0

should_report(b, interval) == PyMod(b, interval) = 0 /\ b > 0

\* ------------------------------------------------------------- actions
RaiseErr(e) == pc' = "raised" /\ err' = e

\* train_data = batchify(train_txt, batch_size), then val and test.
Batchify ==
    /\ pc = "batchify"
    /\ LET tr == batchify(train_txt, batch_size)
           va == batchify(val_txt, eval_batch_size)
           te == batchify(test_txt, eval_batch_size)
       IN  /\ train_data' = tr
           /\ val_data' = IF IsOk(tr) THEN va ELSE val_data
           /\ test_data' = IF IsOk(tr) /\ IsOk(va) THEN te ELSE test_data
           /\ IF ~IsOk(tr) THEN RaiseErr(tr.err)
              ELSE IF ~IsOk(va) THEN RaiseErr(va.err)
              ELSE IF ~IsOk(te) THEN RaiseErr(te.err)
              ELSE pc' = "epoch" /\ err' = err
    /\ UNCHANGED <<cfg_vars, loop_vars, win_vars, mask_vars, params, run_vars,
                   out_vars, eval_log, eval_params, step_lr, ghost_vars>>

\* for epoch in range(1, epochs + 1): train() up to its loop head.
EpochStart ==
    /\ pc = "epoch"
    /\ epoch < epochs
    /\ epoch' = epoch + 1
    /\ total_loss' = 0
    /\ batch' = 0
    /\ i' = 0
    /\ IF bptt = 0 THEN RaiseErr("ValueError") ELSE pc' = "train" /\ err' = err
    /\ pass_log' = << >>
    /\ sum_windows' = 0
    /\ UNCHANGED <<cfg_vars, data_vars, win_vars, mask_vars, params, run_vars,
                   out_vars, eval_log, eval_params, step_lr>>

\* One pass of train()'s loop body.
TrainStep ==
    /\ pc = "train"
    /\ InRange(i, train_data.rows - 1, bptt)
    /\ LET w == get_batch(train_data, i)
       IN  /\ data' = w.data
           /\ targets' = w.target
           /\ Forward(w.data)
           /\ pass_log' = Append(pass_log, Window(i, w))
    /\ params' = params + 1
    /\ step_lr' = lr
    /\ \E loss \in LossVals :
         LET tl == FAdd(total_loss, loss)
         IN  IF log_interval = 0
             THEN /\ RaiseErr("ZeroDivisionError")
                  /\ total_loss' = tl
                  /\ sum_windows' = sum_windows + 1
                  /\ UNCHANGED <<batch, i, out_vars>>
             ELSE /\ IF should_report(batch, log_interval)
                     THEN /\ n_reports' = n_reports + 1
                          /\ last_report' =
                               [epoch |-> epoch, batch |-> batch,
                                nbatches |-> PyFloorDiv(train_data.rows, bptt),
                                lr |-> lr, cur_loss |-> <<tl, log_interval>>,
                                windows |-> sum_windows + 1]
                          /\ total_loss' = 0
                          /\ sum_windows' = 0
                     ELSE /\ total_loss' = tl
                          /\ sum_windows' = sum_windows + 1
                          /\ UNCHANGED <<n_reports, last_report>>
                  /\ batch' = batch + 1
                  /\ i' = i + bptt
                  /\ UNCHANGED <<pc, err, n_summaries>>
    /\ UNCHANGED <<cfg_vars, data_vars, epoch, run_vars, eval_log, eval_params>>

\* train() returns; evaluate(model, val_data) up to its loop head.
TrainEnd ==
    /\ pc = "train"
    /\ ~InRange(i, train_data.rows - 1, bptt)
    /\ pc' = "validate"
    /\ eval_params' = params
    /\ eval_log' = << >>
    /\ total_loss' = 0
    /\ i' = 0
    /\ pass_log' = << >>
    /\ sum_windows' = 0
    /\ UNCHANGED <<cfg_vars, data_vars, err, epoch, batch, win_vars, mask_vars,
                   params, run_vars, out_vars, step_lr>>

EvalSource == IF pc = "validate" THEN val_data ELSE test_data

\* One pass of evaluate()'s loop body.
EvalStep ==
    /\ pc \in {"validate", "test"}
    /\ InRange(i, EvalSource.rows - 1, bptt)
    /\ LET w == get_batch(EvalSource, i)
       IN  /\ data' = w.data
           /\ targets' = w.target
           /\ Forward(w.data)
           /\ pass_log' = Append(pass_log, Window(i, w))
           /\ \E loss \in LossVals :
                /\ total_loss' = evaluate_add(total_loss, w.data.rows, loss)
                /\ eval_log' = Append(eval_log, <<w.data.rows, loss>>)
    /\ i' = i + bptt
    /\ UNCHANGED <<cfg_vars, data_vars, pc, err, epoch, batch, params, run_vars,
                   out_vars, eval_params, step_lr, sum_windows>>

\* evaluate returns val_loss; the summary, the best model, scheduler.step().
EpochEnd ==
    /\ pc = "validate"
    /\ ~InRange(i, val_data.rows - 1, bptt)
    /\ LET r == evaluate_return(total_loss, val_data)
       IN  IF r.err # "ok"
           THEN /\ RaiseErr(r.err)
                /\ UNCHANGED <<run_vars, n_summaries>>
           ELSE /\ val_loss' = r.q
                /\ val_hist' = Append(val_hist, r.q)
                /\ n_summaries' = n_summaries + 1
                /\ IF FLt(r.q, best_val_loss)
                   THEN /\ best_val_loss' = r.q
                        /\ best_model' = ModelRef
                        /\ params_at_best' = params
                   ELSE UNCHANGED <<best_val_loss, best_model, params_at_best>>
                /\ lr' = scheduler_step(lr)
                /\ pc' = "epoch"
                /\ UNCHANGED <<err, test_loss>>
    /\ UNCHANGED <<cfg_vars, data_vars, loop_vars, win_vars, mask_vars, params,
                   n_reports, last_report, eval_log, eval_params, step_lr,
                   ghost_vars>>

\* test_loss = evaluate(best_model, test_data), up to the loop head.
TestStart ==
    /\ pc = "epoch"
    /\ epoch >= epochs
    /\ IF best_model.none
       THEN /\ RaiseErr("AttributeError")
            /\ UNCHANGED <<eval_params, eval_log, total_loss, i, pass_log>>
       ELSE /\ pc' = "test"
            /\ pass_log' = << >>
            /\ eval_params' = Deref(best_model)
            /\ eval_log' = << >>
            /\ total_loss' = 0
            /\ i' = 0
            /\ err' = err
    /\ UNCHANGED <<cfg_vars, data_vars, epoch, batch, win_vars, mask_vars,
                   params, run_vars, out_vars, step_lr, sum_windows>>

TestEnd ==
    /\ pc = "test"
    /\ ~InRange(i, test_data.rows - 1, bptt)
    /\ LET r == evaluate_return(total_loss, test_data)
       IN  IF r.err # "ok"
           THEN RaiseErr(r.err) /\ test_loss' = test_loss
           ELSE pc' = "done" /\ test_loss' = r.q /\ err' = err
    /\ UNCHANGED <<cfg_vars, data_vars, loop_vars, win_vars, mask_vars, params,
                   lr, best_val_loss, best_model, val_loss, val_hist,
                   params_at_best, out_vars, eval_log, eval_params, step_lr,
                   ghost_vars>>

\* ---------------------------------------------------------------- Init
InitState ==
    /\ train_data = NoTensor /\ val_data = NoTensor /\ test_data = NoTensor
    /\ err = "none"
    /\ epoch = 0 /\ batch = 0 /\ i = 0 /\ total_loss = 0
    /\ data = NoTensor /\ targets = << >>
    /\ src_mask = NoMask /\ enc_mask = NoMask /\ mask_out = NoMask
    /\ mask_builds = 0 /\ fwd_calls = 0
    /\ params = 0
    /\ lr = <<LrInit, 1>>
    /\ best_val_loss = <<Inf, 1>> /\ best_model = NoModel
    /\ val_loss = <<0, 1>> /\ test_loss = <<0, 1>>
    /\ n_reports = 0 /\ last_report = NoReport /\ n_summaries = 0
    /\ val_hist = << >> /\ params_at_best = 0
    /\ eval_log = << >> /\ eval_params = 0 /\ step_lr = <<0, 1>>
    /\ pass_log = << >> /\ sum_windows = 0

\* Every split holds at least one row of tokens whenever it batchifies.
Init ==
    /\ pc = "batchify"
    /\ batch_size \in {0 - 1, 0, 1, 2}
    /\ eval_batch_size \in {0, 1}
    /\ \E L \in (MaxLen - 2)..MaxLen : train_txt = Ident(L)
    /\ \E L \in 1..MaxValLen : val_txt = Ident(L)
    /\ test_txt = Ident(MaxValLen)
    /\ bptt \in (0 - 1)..MaxBptt
    /\ log_interval \in {0, 1, 2}
    /\ epochs = Epochs
    /\ InitState

Next ==
    \/ Batchify
    \/ EpochStart
    \/ TrainStep
    \/ TrainEnd
    \/ EvalStep
    \/ EpochEnd
    \/ TestStart
    \/ TestEnd

Spec == Init /\ [][Next]_vars

\* ------------------------------------------- the functions on their own
\* batchify, get_batch, the mask builder and forward called directly, on
\* token sequences, column counts, window sizes and offsets of any kind.
Squares(L) == [k \in 1..L |-> ((k - 1) * (k - 1)) % 3]

InitFn ==
    /\ pc = "fn"
    /\ \E L \in 0..MaxLen : train_txt \in {Ident(L), Squares(L)}
    /\ batch_size \in (0 - 2)..MaxBsz
    /\ bptt \in (0 - 1)..MaxBptt
    /\ val_txt = << >> /\ test_txt = << >> /\ eval_batch_size = 1
    /\ log_interval = 1 /\ epochs = Epochs
    /\ InitState

CallBatchify ==
    /\ pc = "fn"
    /\ train_data' = batchify(train_txt, batch_size)
    /\ IF IsOk(train_data')
       THEN pc' = "fn_batched" /\ err' = err
       ELSE RaiseErr(train_data'.err)
    /\ UNCHANGED <<cfg_vars, val_data, test_data, loop_vars, win_vars,
                   mask_vars, params, run_vars, out_vars, eval_log,
                   eval_params, step_lr, ghost_vars>>

CallGetBatch ==
    /\ pc = "fn_batched"
    /\ \E start \in 0..train_data.rows :
         /\ i' = start
         /\ data' = get_batch(train_data, start).data
         /\ targets' = get_batch(train_data, start).target
    /\ UNCHANGED <<cfg_vars, data_vars, pc, err, epoch, batch, total_loss,
                   mask_vars, params, run_vars, out_vars, eval_log,
                   eval_params, step_lr, ghost_vars>>

CallForward ==
    /\ pc = "fn_batched"
    /\ IsOk(data)
    /\ data.rows >= 1
    /\ fwd_calls < MaxCalls
    /\ Forward(data)
    /\ UNCHANGED <<cfg_vars, data_vars, pc, err, loop_vars, win_vars, params,
                   run_vars, out_vars, eval_log, eval_params, step_lr, ghost_vars>>

CallMask ==
    /\ pc \in {"fn", "fn_batched"}
    /\ \E sz \in 0..MaxSz : mask_out' = MaskOf(sz)
    /\ UNCHANGED <<cfg_vars, data_vars, pc, err, loop_vars, win_vars, src_mask,
                   enc_mask, mask_builds, fwd_calls, params, run_vars,
                   out_vars, eval_log, eval_params, step_lr, ghost_vars>>

NextFn ==
    \/ CallBatchify
    \/ CallGetBatch
    \/ CallForward
    \/ CallMask

SpecFn == InitFn /\ [][NextFn]_vars

\* ===================================================== claims, SpecFn
\* C1: for every flat sequence of length L and every batch_columns B >= 1,
\* batchify returns a matrix of floor(L/B) rows and B columns whose entry
\* (t, b) is input element b*floor(L/B) + t: the first floor(L/B)*B elements
\* as B contiguous runs laid out as columns, the L mod B last ones dropped.
C1_BatchifyLayout ==
    (pc # "fn" /\ batch_size >= 1) =>
        LET n == Len(train_txt) \div batch_size
        IN  /\ pc = "fn_batched"
            /\ IsOk(train_data)
            /\ train_data.rows = n
            /\ train_data.cols = batch_size
            /\ Len(train_data.data) = n * batch_size
            /\ \A t \in 0..(n - 1), b \in 0..(batch_size - 1) :
                 At(train_data, t, b) = train_txt[b * n + t + 1]

\* C1 witness: a batchified matrix of several rows and columns that dropped
\* a remainder.
C1_Witness ==
    /\ pc = "fn_batched"
    /\ batch_size >= 2
    /\ train_data.rows >= 2
    /\ Len(train_txt) % batch_size # 0
    /\ train_txt = Ident(Len(train_txt))

\* C2: for a source of T rows, a start 0 <= i < T-1 and a window size W >= 1,
\* get_batch returns data and target of seq_len = min(W, T-1-i) rows each,
\* data[t,b] = source[i+t, b], and the target, flattened time-major, holds
\* source[i+1+t, b] at position t*columns + b.
C2_WindowTarget ==
    (pc = "fn_batched" /\ IsOk(data) /\ bptt >= 1 /\ i < train_data.rows - 1) =>
        LET n == Min(bptt, train_data.rows - 1 - i)
            B == train_data.cols
        IN  /\ data.rows = n
            /\ data.cols = B
            /\ Len(targets) = n * B
            /\ \A t \in 0..(n - 1), b \in 0..(B - 1) :
                 /\ At(data, t, b) = At(train_data, i + t, b)
                 /\ targets[t * B + b + 1] = At(train_data, i + 1 + t, b)

\* C2 witness: a window cut short by the end of a matrix of several columns,
\* taken at a start other than 0.
C2_Witness ==
    /\ pc = "fn_batched"
    /\ IsOk(data)
    /\ i > 0
    /\ data.rows >= 2
    /\ data.rows < bptt
    /\ data.cols >= 2
    /\ train_txt = Ident(Len(train_txt))

IsForward == fwd_calls' = fwd_calls + 1

\* C4: in every forward call the mask handed to the sequence encoder has the
\* size of that call's sequence; the cached mask is rebuilt and replaced
\* only when it is absent or of another size, and is otherwise reused
\* unchanged.
C4_MaskCache ==
    [][IsForward =>
        /\ ~enc_mask'.none
        /\ enc_mask'.sz = data'.rows
        /\ DOMAIN enc_mask'.m = 0..(data'.rows - 1)
        /\ enc_mask' = src_mask'
        /\ IF src_mask.none \/ src_mask.sz # data'.rows
           THEN mask_builds' = mask_builds + 1 /\ src_mask' = mask_out'
           ELSE /\ mask_builds' = mask_builds
                /\ src_mask' = src_mask
                /\ mask_out' = mask_out]_vars

\* C4 witness: a finished run whose forward calls changed length several
\* times and also reused the cached mask.
C4_Witness ==
    /\ pc = "done"
    /\ mask_builds >= 3
    /\ mask_builds < fwd_calls

\* C5: the model evaluated on the test split has the parameters the model
\* had at the end of the epoch with the lowest validation loss; training in
\* later epochs does not change the recorded best model.
C5_TestUsesBestEpochParams ==
    pc \in {"test", "done"} => eval_params = params_at_best

RECURSIVE Pow(_, _)
Pow(b, e) == IF e = 0 THEN 1 ELSE b * Pow(b, e - 1)

\* l == lr0 * gamma^k, on quotients
RateIs(l, k) == l[1] * Pow(GammaDen, k) = LrInit * Pow(GammaNum, k) * l[2]

\* C6: the learning rate during every training window of epoch e is
\* lr0 * gamma^(e-1): one decay after each epoch, none inside an epoch,
\* whether or not the validation loss improved.
C6_LrSchedule ==
    /\ pc \in {"train", "validate"} => RateIs(lr, epoch - 1)
    /\ (pc \in {"train", "validate"} /\ batch > 0) => RateIs(step_lr, epoch - 1)
    /\ pc \in {"epoch", "test", "done"} => RateIs(lr, Len(val_hist))

\* C6 witness: a training step of epoch 3 after an epoch 2 that did not
\* improve on epoch 1.
C6_Witness ==
    /\ pc = "train"
    /\ epoch = 3
    /\ batch > 0
    /\ Len(val_hist) = 2
    /\ FLt(val_hist[1], val_hist[2])

RECURSIVE WeightedSum(_)
WeightedSum(log) ==
    IF log = << >> THEN 0
    ELSE FAdd(WeightedSum(SubSeq(log, 1, Len(log) - 1)),
              FScale(log[Len(log)][1], log[Len(log)][2]))

\* res is what evaluate must return for the windows in eval_log
EvalResultOk(res, source) ==
    /\ res = <<WeightedSum(eval_log), source.rows - 1>>
    /\ \A c \in LossVals \ {NaN} :
         (eval_log # << >> /\ \A k \in 1..Len(eval_log) : eval_log[k][2] = c)
            => FEq(res, <<c, 1>>)

\* C7: evaluate returns the sum over the windows of window_len * window_loss
\* divided by total_timesteps - 1; a model whose loss is the same c on every
\* window yields c, also when the last window is short.
C7_EvaluateMean ==
    /\ (pc = "epoch" /\ epoch >= 1 /\ bptt >= 1) => EvalResultOk(val_loss, val_data)
    /\ (pc = "done" /\ bptt >= 1) => EvalResultOk(test_loss, test_data)

\* C7 witness: an evaluation of loss 1 on every window, the last window
\* shorter than the window size.
C7_Witness ==
    /\ pc = "epoch"
    /\ Len(eval_log) >= 2
    /\ eval_log[Len(eval_log)][1] < bptt
    /\ \A k \in 1..Len(eval_log) : eval_log[k][2] = 1
    /\ FEq(val_loss, <<1, 1>>)

\* C9: a non-positive batch_columns or window_size raises at once: no
\* matrix, window or loss is returned and no pass iterates zero windows.
C9_NonPositiveConfigIsFatal ==
    /\ (batch_size <= 0 \/ eval_batch_size <= 0) => pc \in {"batchify", "raised"}
    /\ bptt <= 0 =>
         /\ pc \notin {"validate", "test", "done"}
         /\ ~(pc = "epoch" /\ epoch >= 1)
         /\ ~IsOk(data)
         /\ val_hist = << >>

\* C10: after every epoch the best loss is the minimum of the validation
\* losses so far, and a best model is recorded from the end of the first
\* epoch on, whatever the first validation loss is.
C10_FirstEpochAlwaysBest ==
    Len(val_hist) >= 1 =>
        /\ ~best_model.none
        /\ \E k \in 1..Len(val_hist) : best_val_loss = val_hist[k]
        /\ \A k \in 1..Len(val_hist) : ~FLt(val_hist[k], best_val_loss)

\* ============================================== the end-to-end scenario
\* A corpus of 1000 tokens in 10 columns, windows of 5 rows, one epoch;
\* validation and test corpora of a few rows.
InitE2E ==
    /\ pc = "batchify"
    /\ train_txt = Ident(1000)
    /\ batch_size = 10
    /\ bptt = 5
    /\ log_interval \in {0, 1}
    /\ epochs = 1
    /\ val_txt \in {Ident(30), Ident(70)}
    /\ test_txt = Ident(30)
    /\ eval_batch_size = 10
    /\ InitState

SpecE2E == InitE2E /\ [][Next]_vars

\* The shapes of the scenario: the matrix, and the first window.
E2EShapes ==
    /\ pc # "batchify" =>
         IsOk(train_data) /\ train_data.rows = 100 /\ train_data.cols = 10
    /\ fwd_calls = 1 =>
         data.rows = 5 /\ data.cols = 10 /\ Len(targets) = 50

\* Once train() has returned: the lines printed in the one epoch.
E2EReports ==
    /\ pc \in {"validate", "epoch", "test", "done"} /\ epoch = 1 => n_reports = 19
    /\ pc \in {"test", "done"} \/ (pc = "epoch" /\ epoch = 1) => n_summaries = 1

InitFair ==
    /\ pc = "batchify"
    /\ batch_size \in {0, 1, 2}
    /\ eval_batch_size = 1
    /\ train_txt = Ident(MaxLen)
    /\ val_txt \in {Ident(1), Ident(MaxValLen)}
    /\ test_txt = Ident(MaxValLen)
    /\ bptt \in {0 - 1, 0, MaxBptt - 1, MaxBptt}
    /\ log_interval \in {0, 1, 2}
    /\ epochs = Epochs
    /\ InitState

SpecFair == InitFair /\ [][Next]_vars /\ WF_vars(Next)

\* The matrix the pass at pc walks.
PassSource ==
    IF pc = "train" THEN train_data
    ELSE IF pc = "validate" THEN val_data ELSE test_data

\* The loop over the windows of the pass at pc has run out.
PassOver == bptt > 0 => i >= PassSource.rows - 1

\* What one step of a run may do.
RunOrderStep ==
    \* epochs 1..N in increasing order, one at a time
    /\ epoch' \in {epoch, epoch + 1}
    /\ epoch' = epoch + 1 =>
         pc = "epoch" /\ epoch < epochs /\ pc' \in {"train", "raised"}
    \* training of an epoch starts at its first window, once
    /\ (pc' = "train" /\ pc # "train") =>
         pc = "epoch" /\ epoch' = epoch + 1 /\ i' = 0 /\ batch' = 0
    \* validation starts when the training pass is over, never before
    /\ (pc' = "validate" /\ pc # "validate") =>
         pc = "train" /\ PassOver /\ i' = 0 /\ epoch' = epoch
    \* an epoch ends when the validation pass is over
    /\ (pc' = "epoch" /\ pc # "epoch") =>
         \/ pc = "batchify" /\ epoch' = 0
         \/ pc = "validate" /\ PassOver /\ Len(val_hist') = epoch
    \* the one test evaluation comes after epoch N
    /\ (pc' = "test" /\ pc # "test") =>
         pc = "epoch" /\ epoch = epochs /\ Len(val_hist) = epochs /\ i' = 0
    /\ (pc' = "done" /\ pc # "done") =>
         pc = "test" /\ PassOver /\ epoch = epochs /\ n_summaries = epochs
    \* nothing follows the end of the run
    /\ pc \in {"done", "raised"} => pc' = pc
    \* a window: the next offset of the pass, never one already taken
    /\ fwd_calls' # fwd_calls =>
         /\ fwd_calls' = fwd_calls + 1
         /\ pc \in {"train", "validate", "test"}
         /\ bptt >= 1
         /\ i = Len(pass_log) * bptt
         /\ i < PassSource.rows - 1
         /\ pass_log' = Append(pass_log, pass_log'[Len(pass_log')])
         /\ pass_log'[Len(pass_log')].start = i
         /\ \A k \in 1..Len(pass_log) : pass_log[k].start < i
         /\ pc' # "raised" => i' = i + bptt /\ pc' = pc
         \* one optimizer step per training window, none in evaluation
         /\ params' = IF pc = "train" THEN params + 1 ELSE params
    /\ fwd_calls' = fwd_calls => params' = params /\ pass_log' \in {pass_log, << >>}

C12_ReportIsMeanOfItsWindows ==
    n_reports >= 1 =>
        /\ last_report.cur_loss[2] = log_interval
        /\ last_report.windows = log_interval

\* The running sum restarts at zero in every epoch and after every report.
SumRestarts ==
    [][/\ (pc' = "train" /\ pc # "train") =>
             total_loss' = 0 /\ sum_windows' = 0
       /\ n_reports' # n_reports => total_loss' = 0 /\ sum_windows' = 0]_vars

\* Every report but the first of an epoch does hold log_interval losses; the
\* first holds one more (windows 0..log_interval).
ReportWindows ==
    n_reports >= 1 =>
        last_report.windows =
            IF last_report.batch = log_interval
            THEN log_interval + 1 ELSE log_interval

\* ================================================ windows of a pass, Spec
RECURSIVE SumRows(_)
SumRows(log) ==
    IF log = << >> THEN 0
    ELSE SumRows(SubSeq(log, 1, Len(log) - 1)) + log[Len(log)].rows

RECURSIVE SumWeights(_)
SumWeights(log) ==
    IF log = << >> THEN 0
    ELSE SumWeights(SubSeq(log, 1, Len(log) - 1)) + log[Len(log)][1]

\* The windows taken so far in a pass over a matrix of T rows.
WindowsOk(T) ==
    \A k \in 1..Len(pass_log) :
        LET w == pass_log[k]
        IN  /\ w.start = (k - 1) * bptt
            /\ w.start < T - 1
            /\ w.rows >= 1 /\ w.rows <= bptt
            /\ w.rows < bptt => w.start + bptt > T - 1
            /\ w.start + 1 + w.rows <= T
            /\ w.target_len = w.rows * w.cols

\* The windows of a finished pass over a matrix of T rows.
PassCovers(T) ==
    /\ \A o \in 0..(T - 2) :
         o % bptt = 0 => \E k \in 1..Len(pass_log) : pass_log[k].start = o
    /\ \A k \in 1..(Len(pass_log) - 1) : pass_log[k].rows = bptt
    /\ SumRows(pass_log) = T - 1

\* C13: for a matrix of T >= 2 rows and window_size W >= 1 the windows of
\* train_epoch and of evaluate start at 0, W, 2W, ... (every k*W < T-1 and
\* no other), each has 1..W rows, only the last may be shorter than W, no
\* target slice runs past row T-1 (data and target have the same number of
\* rows), and the lengths sum to T-1, which is also the evaluator's divisor
\* and the total of the weights it accumulated.
C13_WindowsPartitionRows ==
    /\ (pc \in {"train", "validate", "test"} /\ bptt >= 1
          /\ PassSource.rows >= 2) =>
         /\ WindowsOk(PassSource.rows)
         /\ PassOver => PassCovers(PassSource.rows)
    /\ (pc = "epoch" /\ epoch >= 1 /\ bptt >= 1 /\ val_data.rows >= 2) =>
         /\ PassCovers(val_data.rows)
         /\ val_loss[2] = SumWeights(eval_log)
         /\ val_loss[2] = val_data.rows - 1
    /\ (pc = "done" /\ bptt >= 1 /\ test_data.rows >= 2) =>
         /\ PassCovers(test_data.rows)
         /\ test_loss[2] = SumWeights(eval_log)

\* C13 witness: a finished training pass of three or more windows whose
\* last window is shorter than the window size.
C13_Witness ==
    /\ pc = "train" /\ PassOver
    /\ bptt >= 2
    /\ train_data.rows >= 2
    /\ Len(pass_log) >= 3
    /\ pass_log[Len(pass_log)].rows < bptt
    /\ SumRows(pass_log) = train_data.rows - 1

\* C14: for a training matrix of T >= 2 rows and window_size W >= 1 the
\* windows-per-epoch figure printed in each training report equals the
\* number of windows train_epoch iterates in that epoch, and the window
\* index printed never exceeds that figure.
C14_PrintedWindowsPerEpoch ==
    (pc = "train" /\ PassOver /\ bptt >= 1 /\ train_data.rows >= 2
       /\ n_reports >= 1 /\ last_report.epoch = epoch) =>
        /\ last_report.nbatches = Len(pass_log)
        /\ last_report.batch <= last_report.nbatches

\* The printed window index does stay within the printed figure.
IndexWithinFigure ==
    (n_reports >= 1 /\ bptt >= 1 /\ train_data.rows >= 2) =>
        last_report.batch <= last_report.nbatches

\* The printed figure is T // W, the iterated windows are ceil((T-1) / W):
\* equal exactly when W >= 2 and T mod W is 0 or 1.
FigureVersusWindows ==
    (pc = "train" /\ PassOver /\ bptt >= 1 /\ train_data.rows >= 2
       /\ n_reports >= 1 /\ last_report.epoch = epoch) =>
        (last_report.nbatches = Len(pass_log)
           <=> (bptt >= 2 /\ train_data.rows % bptt \in {0, 1}))
====
